---------------------------- MODULE Spec2Model ----------------------------
(***************************************************************************)
(* front-end-cache: one key/value interface over document.cookie,          *)
(* localStorage and sessionStorage (src/src/index.ts, built as             *)
(* src/unnamed/part_000).                                                  *)
(*                                                                         *)
(* A JavaScript string is a sequence of characters; a character is a       *)
(* one-character TLA+ string for printable ASCII and "U+<code>" otherwise. *)
(* A JavaScript value is a record [t, s, n, items] (see Undefined .. Obj). *)
(***************************************************************************)
EXTENDS Integers, Sequences, FiniteSets, TLC

(***************************************************************************)
(* Characters and strings                                                  *)
(***************************************************************************)

\* The printable ASCII characters in code order: Ascii[i] has code i + 31
\* (the grave accent, code 96, is written "U+96").
Ascii ==
  << " ", "!", "\"", "#", "$", "%", "&", "'", "(", ")", "*", "+", ",", "-", ".", "/",
     "0", "1", "2", "3", "4", "5", "6", "7", "8", "9", ":", ";", "<", "=", ">", "?",
     "@", "A", "B", "C", "D", "E", "F", "G", "H", "I", "J", "K", "L", "M", "N", "O",
     "P", "Q", "R", "S", "T", "U", "V", "W", "X", "Y", "Z", "[", "\\", "]", "^", "_",
     "U+96", "a", "b", "c", "d", "e", "f", "g", "h", "i", "j", "k", "l", "m", "n", "o",
     "p", "q", "r", "s", "t", "u", "v", "w", "x", "y", "z", "{", "|", "}", "~" >>

AsciiSet == { Ascii[i] : i \in 1..Len(Ascii) }

AsciiCode == [ c \in AsciiSet |-> 31 + CHOOSE i \in 1..Len(Ascii) : Ascii[i] = c ]

MaxCodeUnit == (16 * 16 * 16 * 16) - 1

CharOfCode(n) == IF n - 31 \in 1..Len(Ascii) THEN Ascii[n - 31] ELSE "U+" \o ToString(n)

CodeOf(c) ==
  IF c \in AsciiSet THEN AsciiCode[c]
  ELSE CHOOSE n \in 0..MaxCodeUnit : CharOfCode(n) = c

Digits == <<"0", "1", "2", "3", "4", "5", "6", "7", "8", "9">>

HexUpper == Digits \o <<"A", "B", "C", "D", "E", "F">>

HexLower == Digits \o <<"a", "b", "c", "d", "e", "f">>

IsDigit(c) == \E i \in 1..Len(Digits) : Digits[i] = c

DigitVal(c) == (CHOOSE i \in 1..Len(Digits) : Digits[i] = c) - 1

IsHex(c) == \E i \in 1..16 : HexUpper[i] = c \/ HexLower[i] = c

HexVal(c) == (CHOOSE i \in 1..16 : HexUpper[i] = c \/ HexLower[i] = c) - 1

\* s from position i (1-based) to its end.
Drop(s, i) == SubSeq(s, i, Len(s))

\* Whether p occurs in s at position i.
StartsAt(s, i, p) ==
  /\ i >= 1
  /\ i + Len(p) - 1 <= Len(s)
  /\ SubSeq(s, i, i + Len(p) - 1) = p

\* String.prototype.startsWith
StartsWith(s, p) == StartsAt(s, 1, p)

\* The position of the first c in s at or after i, or 0.
IndexFrom(s, c, i) ==
  IF \E j \in i..Len(s) : s[j] = c
  THEN CHOOSE j \in i..Len(s) : s[j] = c /\ \A k \in i..(j - 1) : s[k] # c
  ELSE 0

RECURSIVE Concat(_)
\* The concatenation of a sequence of strings.
Concat(ss) == IF ss = <<>> THEN <<>> ELSE Head(ss) \o Concat(Tail(ss))

RECURSIVE Join(_, _)
\* Array.prototype.join on strings.
Join(ss, sep) ==
  IF ss = <<>> THEN <<>>
  ELSE IF Len(ss) = 1 THEN ss[1]
  ELSE ss[1] \o sep \o Join(Tail(ss), sep)

RECURSIVE Split(_, _)
\* s cut at every character c (the pieces may be empty).
Split(s, c) ==
  LET j == IndexFrom(s, c, 1)
  IN  IF j = 0 THEN <<s>>
      ELSE <<SubSeq(s, 1, j - 1)>> \o Split(Drop(s, j + 1), c)

\* White space as \s and String.prototype.trim see it, within ASCII.
IsSpace(c) == c = " "

RECURSIVE TrimLeft(_)
TrimLeft(s) == IF s # <<>> /\ IsSpace(s[1]) THEN TrimLeft(Tail(s)) ELSE s

RECURSIVE TrimRight(_)
TrimRight(s) ==
  IF s # <<>> /\ IsSpace(s[Len(s)]) THEN TrimRight(SubSeq(s, 1, Len(s) - 1)) ELSE s

Trim(s) == TrimRight(TrimLeft(s))

RECURSIVE NatToStr(_)
\* The decimal digits of a natural number.
NatToStr(n) ==
  IF n < 10 THEN <<Digits[n + 1]>>
  ELSE NatToStr(n \div 10) \o <<Digits[(n % 10) + 1]>>

\* Number.prototype.toString for an integer.
IntToStr(n) == IF n < 0 THEN <<"-">> \o NatToStr(0 - n) ELSE NatToStr(n)

\* n as two decimal digits (n < 100).
Pad2(n) == <<Digits[(n \div 10) + 1], Digits[(n % 10) + 1]>>

(***************************************************************************)
(* JavaScript values                                                       *)
(***************************************************************************)

Undefined == [t |-> "undefined", s |-> <<>>, n |-> 0, items |-> <<>>]

Null == [t |-> "null", s |-> <<>>, n |-> 0, items |-> <<>>]

Bool(b) == [t |-> "boolean", s |-> <<>>, n |-> IF b THEN 1 ELSE 0, items |-> <<>>]

Num(n) == [t |-> "number", s |-> <<>>, n |-> n, items |-> <<>>]

Str(s) == [t |-> "string", s |-> s, n |-> 0, items |-> <<>>]

Arr(items) == [t |-> "array", s |-> <<>>, n |-> 0, items |-> items]

\* An object: items alternates a property name (a Str) and its value.
Obj(items) == [t |-> "object", s |-> <<>>, n |-> 0, items |-> items]

\* a ?? b
Nullish(v) == v.t \in {"undefined", "null"}

Coalesce(a, b) == IF Nullish(a) THEN b ELSE a

\* ToBoolean, as `x && ...` and `if (x)` apply it.
Truthy(v) ==
  CASE v.t \in {"undefined", "null"} -> FALSE
    [] v.t \in {"boolean", "number"} -> v.n # 0
    [] v.t = "string" -> v.s # <<>>
    [] OTHER -> TRUE

RECURSIVE ToStringJS(_)
\* String(v), which a template literal `${v}` applies.
ToStringJS(v) ==
  CASE v.t = "undefined" -> <<"u", "n", "d", "e", "f", "i", "n", "e", "d">>
    [] v.t = "null" -> <<"n", "u", "l", "l">>
    [] v.t = "boolean" ->
         IF v.n = 1 THEN <<"t", "r", "u", "e">> ELSE <<"f", "a", "l", "s", "e">>
    [] v.t = "number" -> IntToStr(v.n)
    [] v.t = "string" -> v.s
    [] v.t = "array" ->
         Join([i \in 1..Len(v.items) |->
                 IF Nullish(v.items[i]) THEN <<>> ELSE ToStringJS(v.items[i])], <<",">>)
    [] OTHER -> <<"[", "o", "b", "j", "e", "c", "t", " ", "O", "b", "j", "e", "c", "t", "]">>

\* The last value of property name in an object's items, or Undefined.
GetProp(items, name) ==
  LET hits == { i \in 1..(Len(items) \div 2) : items[(2 * i) - 1].s = name }
  IN  IF hits = {} THEN Undefined
      ELSE items[2 * (CHOOSE i \in hits : \A j \in hits : j <= i)]

\* v?.[0]
Index0(v) ==
  CASE v.t = "string" -> IF v.s = <<>> THEN Undefined ELSE Str(<<v.s[1]>>)
    [] v.t = "array" -> IF v.items = <<>> THEN Undefined ELSE v.items[1]
    [] v.t = "object" -> GetProp(v.items, <<"0">>)
    [] OTHER -> Undefined

(***************************************************************************)
(* encodeURIComponent / decodeURIComponent                                 *)
(***************************************************************************)

\* The characters encodeURIComponent leaves as they are.
IsUnreserved(c) ==
  /\ c \in AsciiSet
  /\ \/ AsciiCode[c] \in AsciiCode["a"]..AsciiCode["z"]
     \/ AsciiCode[c] \in AsciiCode["A"]..AsciiCode["Z"]
     \/ IsDigit(c)
     \/ c \in {"-", "_", ".", "!", "~", "*", "'", "(", ")"}

\* The UTF-8 bytes of a code unit (surrogate pairs are not modelled).
Utf8Bytes(n) ==
  IF n < 128 THEN <<n>>
  ELSE IF n < 2048 THEN <<192 + (n \div 64), 128 + (n % 64)>>
  ELSE <<224 + (n \div 4096), 128 + ((n \div 64) % 64), 128 + (n % 64)>>

PercentByte(b) == <<"%", HexUpper[(b \div 16) + 1], HexUpper[(b % 16) + 1]>>

EncodeChar(c) ==
  IF IsUnreserved(c) THEN <<c>>
  ELSE LET bs == Utf8Bytes(CodeOf(c))
       IN  Concat([i \in 1..Len(bs) |-> PercentByte(bs[i])])

\* encodeURIComponent of a string.
EncodeURIComponent(s) == Concat([i \in 1..Len(s) |-> EncodeChar(s[i])])

\* Whether s holds an escape %XX at position i.
IsEscapeAt(s, i) ==
  /\ i + 2 <= Len(s)
  /\ s[i] = "%"
  /\ IsHex(s[i + 1])
  /\ IsHex(s[i + 2])

ByteAt(s, i) == (16 * HexVal(s[i + 1])) + HexVal(s[i + 2])

\* The number of continuation bytes a UTF-8 lead byte announces, or -1.
Utf8More(b) ==
  IF b < 128 THEN 0
  ELSE IF b \in 194..223 THEN 1
  ELSE IF b \in 224..239 THEN 2
  ELSE IF b \in 240..244 THEN 3
  ELSE 0 - 1

RECURSIVE Utf8Tail(_, _, _, _)
\* The code point of a sequence whose lead gave acc and that has k more
\* escapes at position i; -1 when one of them is not a continuation byte.
Utf8Tail(s, i, k, acc) ==
  IF k = 0 THEN acc
  ELSE IF IsEscapeAt(s, i) /\ ByteAt(s, i) \in 128..191
       THEN Utf8Tail(s, i + 3, k - 1, (acc * 64) + (ByteAt(s, i) - 128))
       ELSE 0 - 1

\* The part of the lead byte b that belongs to the code point, k being
\* the number of continuation bytes it announces.
Utf8Lead(b, k) == IF k = 0 THEN b ELSE IF k = 1 THEN b - 192 ELSE IF k = 2 THEN b - 224 ELSE b - 240

\* A decoding result with the character c put before it.
Cons(c, rest) == [ok |-> rest.ok, s |-> <<c>> \o rest.s]

RECURSIVE DecodeFrom(_, _)
RECURSIVE DecodeEscape(_, _, _, _)

\* decodeURIComponent from position i: [ok, s]; ok = FALSE is the URIError.
\* (Overlong forms and surrogates are not rejected, a code point above
\* MaxCodeUnit stays one character.)
DecodeFrom(s, i) ==
  IF i > Len(s) THEN [ok |-> TRUE, s |-> <<>>]
  ELSE IF s[i] # "%" THEN Cons(s[i], DecodeFrom(s, i + 1))
  ELSE IF ~IsEscapeAt(s, i) THEN [ok |-> FALSE, s |-> <<>>]
  ELSE IF Utf8More(ByteAt(s, i)) < 0 THEN [ok |-> FALSE, s |-> <<>>]
  ELSE DecodeEscape(s, i, Utf8More(ByteAt(s, i)),
                    Utf8Tail(s, i + 3, Utf8More(ByteAt(s, i)),
                             Utf8Lead(ByteAt(s, i), Utf8More(ByteAt(s, i)))))

\* The escape at i, with k continuation bytes, decodes to code point cp.
DecodeEscape(s, i, k, cp) ==
  IF cp < 0 THEN [ok |-> FALSE, s |-> <<>>]
  ELSE Cons(CharOfCode(cp), DecodeFrom(s, i + 3 + (3 * k)))

DecodeURIComponent(s) == DecodeFrom(s, 1)

(***************************************************************************)
(* JSON.stringify / JSON.parse                                             *)
(***************************************************************************)

\* A character inside a JSON string literal, as JSON.stringify writes it.
JsonEscapeChar(c) ==
  IF c = "\"" THEN <<"\\", "\"">>
  ELSE IF c = "\\" THEN <<"\\", "\\">>
  ELSE IF c \notin AsciiSet /\ CodeOf(c) < 32
       THEN LET n == CodeOf(c)
            IN  <<"\\", "u", "0", "0", HexLower[(n \div 16) + 1], HexLower[(n % 16) + 1]>>
  ELSE <<c>>

JsonQuote(s) ==
  <<"\"">> \o Concat([i \in 1..Len(s) |-> JsonEscapeChar(s[i])]) \o <<"\"">>

RECURSIVE JsonText(_)
\* The JSON text of a value that is not undefined.
JsonText(v) ==
  CASE v.t = "null" -> <<"n", "u", "l", "l">>
    [] v.t = "boolean" ->
         IF v.n = 1 THEN <<"t", "r", "u", "e">> ELSE <<"f", "a", "l", "s", "e">>
    [] v.t = "number" -> IntToStr(v.n)
    [] v.t = "string" -> JsonQuote(v.s)
    [] v.t = "array" ->
         \* an undefined element is written null
         <<"[">> \o Join([i \in 1..Len(v.items) |->
                            IF v.items[i].t = "undefined" THEN <<"n", "u", "l", "l">>
                            ELSE JsonText(v.items[i])], <<",">>) \o <<"]">>
    [] OTHER ->
         \* a property whose value is undefined is left out
         LET keep == { i \in 1..(Len(v.items) \div 2) : v.items[2 * i].t # "undefined" }
             Pick[k \in 0..(Len(v.items) \div 2)] ==
               IF k = 0 THEN <<>>
               ELSE Pick[k - 1] \o
                    (IF k \in keep
                     THEN <<JsonQuote(v.items[(2 * k) - 1].s) \o <<":">> \o JsonText(v.items[2 * k])>>
                     ELSE <<>>)
         IN  <<"{">> \o Join(Pick[Len(v.items) \div 2], <<",">>) \o <<"}">>

\* JSON.stringify(v): a string, or undefined for undefined.
JSONStringify(v) == IF v.t = "undefined" THEN Undefined ELSE Str(JsonText(v))

IsJsonSpace(c) == c \in {" ", "U+9", "U+10", "U+13"}

RECURSIVE SkipWs(_, _)
SkipWs(s, i) == IF i <= Len(s) /\ IsJsonSpace(s[i]) THEN SkipWs(s, i + 1) ELSE i

\* A parse step's result: ok, the value, and the position after it.
ParseFail == [ok |-> FALSE, v |-> Undefined, i |-> 0]

ParseOk(v, i) == [ok |-> TRUE, v |-> v, i |-> i]

RECURSIVE ParseDigits(_, _, _)
\* The digits from position i on, added to acc: [n, i].
ParseDigits(s, i, acc) ==
  IF i <= Len(s) /\ IsDigit(s[i]) THEN ParseDigits(s, i + 1, (acc * 10) + DigitVal(s[i]))
  ELSE [n |-> acc, i |-> i]

\* A JSON number at position i. Only integers are modelled: a fraction or
\* an exponent is reported as a failure, and the model's inputs hold none.
ParseNumber(s, i) ==
  LET neg == s[i] = "-"
      j == IF neg THEN i + 1 ELSE i
  IN  IF j > Len(s) \/ ~IsDigit(s[j]) THEN ParseFail
      ELSE IF s[j] = "0" /\ j + 1 <= Len(s) /\ IsDigit(s[j + 1]) THEN ParseFail
      ELSE LET d == ParseDigits(s, j, 0)
           IN  IF d.i <= Len(s) /\ s[d.i] \in {".", "e", "E"} THEN ParseFail
               ELSE ParseOk(Num(IF neg THEN 0 - d.n ELSE d.n), d.i)

RECURSIVE ParseChars(_, _, _)
\* The characters of a string literal whose opening quote was read, from i.
ParseChars(s, i, acc) ==
  IF i > Len(s) THEN ParseFail
  ELSE IF s[i] = "\"" THEN ParseOk(Str(acc), i + 1)
  ELSE IF s[i] \notin AsciiSet /\ CodeOf(s[i]) < 32 THEN ParseFail
  ELSE IF s[i] # "\\" THEN ParseChars(s, i + 1, Append(acc, s[i]))
  ELSE IF i + 1 > Len(s) THEN ParseFail
  ELSE IF s[i + 1] \in {"\"", "\\", "/"} THEN ParseChars(s, i + 2, Append(acc, s[i + 1]))
  ELSE IF s[i + 1] \in {"b", "f", "n", "r", "t"}
       THEN ParseChars(s, i + 2, Append(acc,
              CharOfCode(CASE s[i + 1] = "b" -> 8 [] s[i + 1] = "f" -> 12
                           [] s[i + 1] = "n" -> 10 [] s[i + 1] = "r" -> 13
                           [] OTHER -> 9)))
  ELSE IF s[i + 1] = "u" /\ i + 5 <= Len(s) /\ \A k \in 2..5 : IsHex(s[i + k])
       THEN ParseChars(s, i + 6, Append(acc,
              CharOfCode((4096 * HexVal(s[i + 2])) + (256 * HexVal(s[i + 3]))
                         + (16 * HexVal(s[i + 4])) + HexVal(s[i + 5]))))
  ELSE ParseFail

RECURSIVE ParseValue(_, _)
RECURSIVE ParseElements(_, _, _)
RECURSIVE AfterElement(_, _, _, _)
RECURSIVE ParseMembers(_, _, _)
RECURSIVE AfterName(_, _, _, _)
RECURSIVE AfterMember(_, _, _, _)

\* The elements of an array after "[" or ",", from i.
ParseElements(s, i, acc) ==
  IF ParseValue(s, i).ok
  THEN AfterElement(s, SkipWs(s, ParseValue(s, i).i), Append(acc, ParseValue(s, i).v), 0)
  ELSE ParseFail

\* After an element: "]" ends the array acc, "," goes on, at position j.
AfterElement(s, j, acc, unused) ==
  IF j > Len(s) THEN ParseFail
  ELSE IF s[j] = "]" THEN ParseOk(Arr(acc), j + 1)
  ELSE IF s[j] = "," THEN ParseElements(s, j + 1, acc)
  ELSE ParseFail

\* The members of an object after "{" or ",", from i.
ParseMembers(s, i, acc) ==
  IF SkipWs(s, i) > Len(s) \/ s[SkipWs(s, i)] # "\"" THEN ParseFail
  ELSE AfterName(s, ParseChars(s, SkipWs(s, i) + 1, <<>>), acc, 0)

\* After a member's name: ":" and its value.
AfterName(s, name, acc, unused) ==
  IF ~name.ok \/ SkipWs(s, name.i) > Len(s) \/ s[SkipWs(s, name.i)] # ":" THEN ParseFail
  ELSE IF ParseValue(s, SkipWs(s, name.i) + 1).ok
  THEN AfterMember(s, SkipWs(s, ParseValue(s, SkipWs(s, name.i) + 1).i),
                   acc \o <<name.v, ParseValue(s, SkipWs(s, name.i) + 1).v>>, 0)
  ELSE ParseFail

\* After a member: "}" ends the object acc, "," goes on, at position j.
AfterMember(s, j, acc, unused) ==
  IF j > Len(s) THEN ParseFail
  ELSE IF s[j] = "}" THEN ParseOk(Obj(acc), j + 1)
  ELSE IF s[j] = "," THEN ParseMembers(s, j + 1, acc)
  ELSE ParseFail

\* A JSON value from position i, after optional white space.
ParseValue(s, i) ==
  LET j == SkipWs(s, i)
  IN  IF j > Len(s) THEN ParseFail
      ELSE IF s[j] = "\"" THEN ParseChars(s, j + 1, <<>>)
      ELSE IF s[j] = "[" THEN
             IF SkipWs(s, j + 1) <= Len(s) /\ s[SkipWs(s, j + 1)] = "]"
             THEN ParseOk(Arr(<<>>), SkipWs(s, j + 1) + 1)
             ELSE ParseElements(s, j + 1, <<>>)
      ELSE IF s[j] = "{" THEN
             IF SkipWs(s, j + 1) <= Len(s) /\ s[SkipWs(s, j + 1)] = "}"
             THEN ParseOk(Obj(<<>>), SkipWs(s, j + 1) + 1)
             ELSE ParseMembers(s, j + 1, <<>>)
      ELSE IF StartsAt(s, j, <<"t", "r", "u", "e">>) THEN ParseOk(Bool(TRUE), j + 4)
      ELSE IF StartsAt(s, j, <<"f", "a", "l", "s", "e">>) THEN ParseOk(Bool(FALSE), j + 5)
      ELSE IF StartsAt(s, j, <<"n", "u", "l", "l">>) THEN ParseOk(Null, j + 4)
      ELSE IF s[j] = "-" \/ IsDigit(s[j]) THEN ParseNumber(s, j)
      ELSE ParseFail

\* The result of JSON.parse(s) when the parse step r read its first value.
WholeText(s, r) ==
  IF r.ok /\ SkipWs(s, r.i) > Len(s) THEN [ok |-> TRUE, v |-> r.v]
  ELSE [ok |-> FALSE, v |-> Undefined]

\* JSON.parse(s): [ok, v]; ok = FALSE is the SyntaxError.
JSONParse(s) == WholeText(s, ParseValue(s, 1))

(***************************************************************************)
(* Date: epoch milliseconds, toUTCString, and the host's cookie dates      *)
(***************************************************************************)

MsPerDay == 24 * 60 * 60 * 1000

DayNames == << <<"S", "u", "n">>, <<"M", "o", "n">>, <<"T", "u", "e">>, <<"W", "e", "d">>,
               <<"T", "h", "u">>, <<"F", "r", "i">>, <<"S", "a", "t">> >>

MonthNames == << <<"J", "a", "n">>, <<"F", "e", "b">>, <<"M", "a", "r">>, <<"A", "p", "r">>,
                 <<"M", "a", "y">>, <<"J", "u", "n">>, <<"J", "u", "l">>, <<"A", "u", "g">>,
                 <<"S", "e", "p">>, <<"O", "c", "t">>, <<"N", "o", "v">>, <<"D", "e", "c">> >>

\* The civil date [y, m, d] of a day number (days since 1970-01-01, >= 0).
CivilFromDays(days) ==
  LET z == days + 719468
      era == z \div 146097
      doe == z - (era * 146097)
      yoe == (doe - (doe \div 1460) + (doe \div 36524) - (doe \div 146096)) \div 365
      doy == doe - ((365 * yoe) + (yoe \div 4) - (yoe \div 100))
      mp == ((5 * doy) + 2) \div 153
      d == doy - (((153 * mp) + 2) \div 5) + 1
      m == IF mp < 10 THEN mp + 3 ELSE mp - 9
  IN  [y |-> yoe + (era * 400) + (IF m <= 2 THEN 1 ELSE 0), m |-> m, d |-> d]

\* The day number of a civil date.
DaysFromCivil(y0, m, d) ==
  LET y == IF m <= 2 THEN y0 - 1 ELSE y0
      era == y \div 400
      yoe == y - (era * 400)
      doy == (((153 * (IF m > 2 THEN m - 3 ELSE m + 9)) + 2) \div 5) + d - 1
      doe == (yoe * 365) + (yoe \div 4) - (yoe \div 100) + doy
  IN  (era * 146097) + doe - 719468

Pad4(n) == Pad2(n \div 100) \o Pad2(n % 100)

\* new Date(t).toUTCString(), for t >= 0: "Thu, 01 Jan 1970 00:00:00 GMT".
\* The milliseconds of t are not written.
ToUTCString(t) ==
  LET days == t \div MsPerDay
      secs == (t % MsPerDay) \div 1000
      c == CivilFromDays(days)
  IN  DayNames[((days + 4) % 7) + 1] \o <<",", " ">> \o Pad2(c.d) \o <<" ">>
      \o MonthNames[c.m] \o <<" ">> \o Pad4(c.y) \o <<" ">>
      \o Pad2(secs \div 3600) \o <<":">> \o Pad2((secs \div 60) % 60) \o <<":">>
      \o Pad2(secs % 60) \o <<" ", "G", "M", "T">>

AllDigits(s) == \A i \in 1..Len(s) : IsDigit(s[i])

NumOf(s) == ParseDigits(s, 1, 0).n

\* The host's reading of an Expires attribute: [ok, t]. Only the form
\* toUTCString writes is read; any other text leaves the attribute ignored.
ParseCookieDate(s) ==
  IF /\ Len(s) = 29
     /\ SubSeq(s, 4, 5) = <<",", " ">>
     /\ AllDigits(SubSeq(s, 6, 7))
     /\ \E m \in 1..12 : MonthNames[m] = SubSeq(s, 9, 11)
     /\ AllDigits(SubSeq(s, 13, 16))
     /\ AllDigits(SubSeq(s, 18, 19)) /\ s[20] = ":"
     /\ AllDigits(SubSeq(s, 21, 22)) /\ s[23] = ":"
     /\ AllDigits(SubSeq(s, 24, 25))
     /\ SubSeq(s, 26, 29) = <<" ", "G", "M", "T">>
  THEN LET m == CHOOSE k \in 1..12 : MonthNames[k] = SubSeq(s, 9, 11)
           days == DaysFromCivil(NumOf(SubSeq(s, 13, 16)), m, NumOf(SubSeq(s, 6, 7)))
       IN  [ok |-> TRUE,
            t |-> (days * MsPerDay)
                  + (((NumOf(SubSeq(s, 18, 19)) * 3600) + (NumOf(SubSeq(s, 21, 22)) * 60)
                      + NumOf(SubSeq(s, 24, 25))) * 1000)]
  ELSE [ok |-> FALSE, t |-> 0]

(***************************************************************************)
(* The host: location, document.cookie, localStorage and sessionStorage    *)
(*                                                                         *)
(* The cookie jar is a sequence of cookies [name, value, domain, path,     *)
(* hostOnly, expires] in creation order; expires is NoExpiry for a session *)
(* cookie. document.cookie's setter and getter follow RFC 6265 (5.2, 5.3,  *)
(* 5.4) for the attributes the class writes: Expires, Domain and Path.     *)
(***************************************************************************)

NoExpiry == 0 - 1

Lower(c) ==
  IF c \in AsciiSet /\ AsciiCode[c] \in AsciiCode["A"]..AsciiCode["Z"]
  THEN CharOfCode(AsciiCode[c] + 32)
  ELSE c

LowerStr(s) == [i \in 1..Len(s) |-> Lower(s[i])]

\* RFC 6265 5.1.3: the host domain-matches the cookie domain.
DomainMatch(host, domain) ==
  \/ host = domain
  \/ /\ Len(host) > Len(domain)
     /\ SubSeq(host, Len(host) - Len(domain) + 1, Len(host)) = domain
     /\ host[Len(host) - Len(domain)] = "."

\* RFC 6265 5.1.4: the request path path-matches the cookie path.
PathMatch(requestPath, cookiePath) ==
  \/ requestPath = cookiePath
  \/ /\ StartsWith(requestPath, cookiePath)
     /\ \/ cookiePath # <<>> /\ cookiePath[Len(cookiePath)] = "/"
        \/ /\ Len(requestPath) > Len(cookiePath)
           /\ requestPath[Len(cookiePath) + 1] = "/"

\* RFC 6265 5.1.4: the default path of a cookie set from pathname.
DefaultPath(pathname) ==
  IF pathname = <<>> \/ pathname[1] # "/" THEN <<"/">>
  ELSE LET last == CHOOSE i \in 1..Len(pathname) :
                     pathname[i] = "/" /\ \A j \in (i + 1)..Len(pathname) : pathname[j] # "/"
       IN  IF last = 1 THEN <<"/">> ELSE SubSeq(pathname, 1, last - 1)

\* One "name=value" or attribute piece: [name, value, eq].
NameValue(piece) ==
  LET eq == IndexFrom(piece, "=", 1)
  IN  IF eq = 0 THEN [name |-> Trim(piece), value |-> <<>>, eq |-> FALSE]
      ELSE [name |-> Trim(SubSeq(piece, 1, eq - 1)), value |-> Trim(Drop(piece, eq + 1)),
            eq |-> TRUE]

\* The value of the last attribute called name (lower case) among the
\* pieces, as [has, value].
LastAttr(pieces, name) ==
  LET hits == { i \in 2..Len(pieces) : LowerStr(NameValue(pieces[i]).name) = name }
  IN  IF hits = {} THEN [has |-> FALSE, value |-> <<>>]
      ELSE [has |-> TRUE,
            value |-> NameValue(pieces[CHOOSE i \in hits : \A j \in hits : j <= i]).value]

\* The Domain attribute's value as the host keeps it: without a leading
\* dot, in lower case.
CookieDomain(dom) ==
  LowerStr(IF dom.value # <<>> /\ dom.value[1] = "." THEN Tail(dom.value) ELSE dom.value)

\* The cookie made of the name-value pair nv, the domain attribute's value,
\* and the Path and Expires attributes pth and exp: [ok, cookie].
MakeCookie(nv, domain, pth, exp, loc) ==
  [ok |-> /\ nv.eq
          /\ nv.name # <<>>
          /\ (domain = <<>> \/ DomainMatch(loc.hostname, domain)),
   cookie |-> [name |-> nv.name,
               value |-> nv.value,
               domain |-> IF domain = <<>> THEN loc.hostname ELSE domain,
               hostOnly |-> domain = <<>>,
               path |-> IF pth.value = <<>> \/ pth.value[1] # "/"
                        THEN DefaultPath(loc.pathname) ELSE pth.value,
               expires |-> IF exp.has /\ ParseCookieDate(exp.value).ok
                           THEN ParseCookieDate(exp.value).t ELSE NoExpiry]]

\* The cookie the pieces of a set-cookie-string describe.
CookieOfPieces(pieces, loc) ==
  MakeCookie(NameValue(pieces[1]),
             CookieDomain(LastAttr(pieces, <<"d", "o", "m", "a", "i", "n">>)),
             LastAttr(pieces, <<"p", "a", "t", "h">>),
             LastAttr(pieces, <<"e", "x", "p", "i", "r", "e", "s">>),
             loc)

\* The cookie a set-cookie-string asks the host at loc to store at time now:
\* [ok, cookie]; ok = FALSE when the host ignores the string.
ParseSetCookie(str, loc, now) == CookieOfPieces(Split(str, ";"), loc)

SameCookie(a, b) == a.name = b.name /\ a.domain = b.domain /\ a.path = b.path

Expired(c, now) == c.expires # NoExpiry /\ c.expires <= now

\* The jar with the cookie c stored: a cookie that replaces one of the same
\* name, domain and path keeps its place.
PutCookie(jar, c) ==
  IF \E i \in 1..Len(jar) : SameCookie(jar[i], c)
  THEN [i \in 1..Len(jar) |-> IF SameCookie(jar[i], c) THEN c ELSE jar[i]]
  ELSE Append(jar, c)

\* The jar without the cookies that have expired at now.
Evict(jar, now) ==
  LET Live(x) == ~Expired(x, now)
  IN  SelectSeq(jar, Live)

\* The jar after the host handled the parsed set-cookie-string p.
StoreCookie(jar, p, now) == IF p.ok THEN Evict(PutCookie(jar, p.cookie), now) ELSE jar

\* document.cookie = str: the jar afterwards.
SetDocumentCookie(jar, str, loc, now) == StoreCookie(jar, ParseSetCookie(str, loc, now), now)

\* The positions of the jar's cookies that a document at loc sees at now.
Visible(jar, loc, now) ==
  { i \in 1..Len(jar) :
      /\ ~Expired(jar[i], now)
      /\ IF jar[i].hostOnly THEN loc.hostname = jar[i].domain
         ELSE DomainMatch(loc.hostname, jar[i].domain)
      /\ PathMatch(loc.pathname, jar[i].path) }

\* RFC 6265 5.4: cookies with longer paths first, then the older first.
Before(jar, i, j) ==
  \/ Len(jar[i].path) > Len(jar[j].path)
  \/ Len(jar[i].path) = Len(jar[j].path) /\ i < j

RECURSIVE InOrder(_, _)
InOrder(jar, left) ==
  IF left = {} THEN <<>>
  ELSE LET i == CHOOSE x \in left : \A y \in left \ {x} : Before(jar, x, y)
       IN  <<jar[i]>> \o InOrder(jar, left \ {i})

\* The cookie string of the cookies cs.
CookieString(cs) ==
  Join([i \in 1..Len(cs) |-> cs[i].name \o <<"=">> \o cs[i].value], <<";", " ">>)

\* document.cookie read at loc and now: "n1=v1; n2=v2".
GetDocumentCookie(jar, loc, now) == CookieString(InOrder(jar, Visible(jar, loc, now)))

\* Storage.getItem(key): the string stored, or null.
StorageGet(store, key) == IF key \in DOMAIN store THEN Str(store[key]) ELSE Null

\* Storage.setItem(key, value)
StorageSet(store, key, value) ==
  [k \in (DOMAIN store) \cup {key} |-> IF k = key THEN value ELSE store[k]]

(***************************************************************************)
(* class FrontEndCache (src/src/index.ts 85-199)                           *)
(*                                                                         *)
(* An options object is a record holding the properties it was given:      *)
(* type, domain, path (strings), expiresUnit, secure, expires (a number),  *)
(* serialize (a boolean) and encryKey (the name of a key transform).       *)
(* An entry is [variant, key, options].                                    *)
(***************************************************************************)

\* A merge in which the properties of a won over those of b.
SpreadUnder(a, b) ==
  [k \in (DOMAIN a) \cup (DOMAIN b) |-> IF k \in DOMAIN a THEN a[k] ELSE b[k]]

\* { ...a, ...b }
Spread(a, b) ==
  [k \in (DOMAIN a) \cup (DOMAIN b) |-> IF k \in DOMAIN b THEN b[k] ELSE a[k]]

Has(o, name) == name \in DOMAIN o

\* The key transforms of the model: "tag1" and "tag2" put a mark before the
\* key, "blank" returns the empty string.
ApplyEncryKey(f, key) ==
  CASE f = "tag1" -> <<"1">> \o key
    [] f = "tag2" -> <<"2">> \o key
    [] OTHER -> <<>>

\* location.host (the port is the default one, so it is the host name).
LocationHost(loc) == loc.hostname

Defaults(loc) ==
  [domain |-> LocationHost(loc),
   path |-> <<"/">>,
   expiresUnit |-> "milliseconds",
   secure |-> FALSE,
   type |-> "localStorage"]

\* A resolved key that were the transform's result even when it is empty.
EncryKeyResult(options, key) ==
  IF Has(options, "encryKey") THEN ApplyEncryKey(options.encryKey, key) ELSE key

\* this.options.encryKey?.(key) || key
EncryKeyOrKey(options, key) ==
  IF Has(options, "encryKey") /\ ApplyEncryKey(options.encryKey, key) # <<>>
  THEN ApplyEncryKey(options.encryKey, key)
  ELSE key

\* The entry whose merged options are opts.
EntryOf(key, opts) ==
  [variant |-> "value",
   key |-> IF opts.type = "cookie" THEN EncodeURIComponent(key) ELSE EncryKeyOrKey(opts, key),
   options |-> opts]

\* new FrontEndCache(key, options)
Constructor(key, options, loc) == EntryOf(key, Spread(Defaults(loc), options))

expiresUnitFuncMap ==
  [years |-> "FullYear", months |-> "Month", days |-> "Date", hours |-> "Hours",
   minutes |-> "Minutes", seconds |-> "Seconds", milliseconds |-> "Milliseconds"]

\* now[`get${fun}`](arg) on a Date holding t: a getter takes no argument
\* and leaves the date as it is.
DateCallGetter(t, fun, arg) == t

\* A time stamp that were the configured magnitude itself.
ExpiresRelative(e, now) ==
  IF ~Has(e.options, "expires") THEN Null ELSE Num(e.options.expires)

\* get expiresTimeStamp: null, or the time of `now` after the call.
ExpiresTimeStamp(e, now) ==
  IF ~Has(e.options, "expires") THEN Null
  ELSE Num(DateCallGetter(now, expiresUnitFuncMap[e.options.expiresUnit], e.options.expires))

\* A serializeValue that percent-encoded for every medium.
ForMediumEncoded(e, v) == Str(EncodeURIComponent(ToStringJS(v)))

\* What serializeValue returns for the string or undefined v.
ForMedium(e, v) ==
  IF e.options.type = "cookie" THEN Str(EncodeURIComponent(ToStringJS(v))) ELSE v

\* serializeValue(value): a string, or undefined when JSON.stringify gives
\* undefined and the type is not cookie.
SerializeValue(e, value) ==
  ForMedium(e, IF Has(e.options, "serialize") /\ ~e.options.serialize
               THEN Str(ToStringJS(value))
               ELSE JSONStringify(value))

\* The parsed text, or null for the SyntaxError the catch swallows.
ParsedOrNull(r) == IF r.ok THEN r.v ELSE Null

\* The decoded text dec deserialized; null for a caught error.
Deserialized(e, dec) ==
  IF ~dec.ok THEN Null
  ELSE IF Has(e.options, "serialize") /\ ~e.options.serialize THEN Str(dec.s)
  ELSE ParsedOrNull(JSONParse(dec.s))

\* The text raw, decoded for a cookie: [ok, s].
DecodedRaw(e, raw) ==
  IF e.options.type = "cookie" THEN DecodeURIComponent(raw) ELSE [ok |-> TRUE, s |-> raw]

\* deserialization(value): value is a string, null or undefined.
Deserialization(e, value) ==
  Deserialized(e, DecodedRaw(e, IF Nullish(value) THEN <<>> ELSE value.s))

\* The expires attribute setCookie writes for the time stamp ts.
ExpiresAttr(ts) ==
  IF Truthy(ts)
  THEN <<"e", "x", "p", "i", "r", "e", "s", "=">> \o ToUTCString(ts.n) \o <<";">>
  ELSE <<>>

\* A set-cookie-string that carried the secure option.
SetCookieStringSecure(e, value, now) ==
  e.key \o <<"=">> \o SerializeValue(e, value).s \o <<";">>
  \o <<"p", "a", "t", "h", "=">> \o e.options.path \o <<";">>
  \o <<"d", "o", "m", "a", "i", "n", "=">> \o e.options.domain \o <<";">>
  \o ExpiresAttr(ExpiresTimeStamp(e, now))
  \o (IF e.options.secure THEN <<"s", "e", "c", "u", "r", "e", ";">> ELSE <<>>)

\* The string setCookie assigns to document.cookie.
SetCookieString(e, value, now) ==
  e.key \o <<"=">> \o SerializeValue(e, value).s \o <<";">>
  \o <<"p", "a", "t", "h", "=">> \o e.options.path \o <<";">>
  \o <<"d", "o", "m", "a", "i", "n", "=">> \o e.options.domain \o <<";">>
  \o ExpiresAttr(ExpiresTimeStamp(e, now))

\* A removal string that named no path.
RemoveCookieNoPath(e) ==
  e.key \o <<"=", ";", " ", "e", "x", "p", "i", "r", "e", "s", "=">> \o ToUTCString(0)
  \o <<";", "d", "o", "m", "a", "i", "n", "=">> \o e.options.domain

\* The string removeCookie assigns to document.cookie.
RemoveCookieString(e) ==
  e.key \o <<"=", ";", " ", "e", "x", "p", "i", "r", "e", "s", "=">> \o ToUTCString(0)
  \o <<";", "d", "o", "m", "a", "i", "n", "=">> \o e.options.domain
  \o <<";", "p", "a", "t", "h", "=">> \o e.options.path

\* The pattern of getCookie is
\*     (?:(?:^|.*;)\s*KEY\s*\=\s*([^;]*).*$)|^.*$
\* where KEY is the key with the characters - . + and * escaped. A
\* percent-encoded key holds no other pattern character than the two
\* parentheses, which stay unescaped and form groups.

RECURSIVE ParenDepths(_, _)
\* The nesting depth after each character of key, from depth d.
ParenDepths(key, d) ==
  IF key = <<>> THEN <<>>
  ELSE LET d2 == IF key[1] = "(" THEN d + 1 ELSE IF key[1] = ")" THEN d - 1 ELSE d
       IN  <<d2>> \o ParenDepths(Tail(key), d2)

\* new RegExp(...) throws a SyntaxError on an unbalanced pattern. KEY stands
\* inside one group of the pattern, so a ")" of the key may close that
\* group; the text the pattern matches is modelled below for the keys
\* whose own parentheses nest (no ")" before its "("), as the keys of the
\* model are.
PatternIsValid(key) ==
  LET ds == ParenDepths(key, 0)
  IN  /\ \A i \in 1..Len(ds) : ds[i] >= 0 - 1
      /\ (ds = <<>> \/ ds[Len(ds)] = 0)

IsNotParen(c) == c \notin {"(", ")"}

\* The text KEY matches: the key without its group parentheses.
KeyLiteral(key) == SelectSeq(key, IsNotParen)

HasGroup(key) == \E i \in 1..Len(key) : key[i] = "("

\* The text the first group of KEY matches.
FirstGroupLiteral(key) ==
  LET ds == ParenDepths(key, 0)
      open == IndexFrom(key, "(", 1)
      close == CHOOSE j \in (open + 1)..Len(key) :
                 ds[j] = ds[open] - 1 /\ \A k \in open..(j - 1) : ds[k] >= ds[open]
  IN  KeyLiteral(SubSeq(key, open + 1, close - 1))

RECURSIVE SkipSpaces(_, _)
SkipSpaces(s, i) == IF i <= Len(s) /\ IsSpace(s[i]) THEN SkipSpaces(s, i + 1) ELSE i

\* \s*KEY\s*\=\s*([^;]*) tried at position p of str: [ok, value].
MatchAt(str, p, lit) ==
  LET q == SkipSpaces(str, p)
      r == SkipSpaces(str, q + Len(lit))
      v == SkipSpaces(str, r + 1)
      stop == IndexFrom(str, ";", v)
  IN  IF StartsAt(str, q, lit) /\ r <= Len(str) /\ str[r] = "="
      THEN [ok |-> TRUE,
            value |-> SubSeq(str, v, IF stop = 0 THEN Len(str) ELSE stop - 1)]
      ELSE [ok |-> FALSE, value |-> <<>>]

\* The positions the first alternative is tried at, in the order the
\* pattern tries them: the start of the string, then after each ";" from
\* the last to the first.
MatchStarts(str) ==
  LET semis == { i \in 1..Len(str) : str[i] = ";" }
      Late[k \in 0..Cardinality(semis)] ==
        IF k = 0 THEN <<>>
        ELSE LET prev == Late[k - 1]
                 left == { i \in semis : \A j \in 1..Len(prev) : prev[j] # i + 1 }
             IN  Append(prev, 1 + CHOOSE i \in left : \A j \in left : j <= i)
  IN  <<1>> \o Late[Cardinality(semis)]

\* The positions among starts where the first alternative matches.
MatchHits(str, starts, lit) ==
  { k \in 1..Len(starts) : MatchAt(str, starts[k], lit).ok }

\* The replacement text, the first alternative matching at the positions
\* hits of starts.
Replaced(str, key, starts, hits) ==
  IF hits = {} THEN <<>>
  ELSE IF HasGroup(key) THEN FirstGroupLiteral(key)
  ELSE MatchAt(str, starts[CHOOSE k \in hits : \A j \in hits : k <= j], KeyLiteral(key)).value

\* The replacement text, the first alternative being tried at starts.
ReplacedFrom(str, key, starts) ==
  Replaced(str, key, starts, MatchHits(str, starts, KeyLiteral(key)))

\* str.replace(pattern, '$1'): the whole string is matched by one of the
\* two alternatives, so the result is the text of group 1.
CookieReplace(str, key) == ReplacedFrom(str, key, MatchStarts(str))

\* getCookie(): [fault, ret].
GetCookie(e, jar, loc, now) ==
  IF ~PatternIsValid(e.key) THEN [fault |-> "SyntaxError", ret |-> Undefined]
  ELSE [fault |-> "",
        ret |-> Deserialization(e, Str(CookieReplace(GetDocumentCookie(jar, loc, now), e.key)))]

(***************************************************************************)
(* class FrontEndCache, the variant whose setItem takes an options object  *)
(* (src/src/index.ts 269-334). Its entries keep the key as given.          *)
(***************************************************************************)

DefaultsOpt(loc) ==
  [type |-> "localStorage",
   path |-> <<"/">>,
   domain |-> LocationHost(loc),
   expiresUnit |-> "milliseconds",
   secure |-> FALSE]

\* new FrontEndCache(key, options)
ConstructorOpt(key, options, loc) ==
  [variant |-> "options", key |-> key, options |-> Spread(DefaultsOpt(loc), options)]

\* get encryKey
EncryKeyOpt(e) == EncryKeyOrKey(e.options, e.key)

\* getExpires(exp, expUnit)
GetExpires(exp, expUnit, now) == DateCallGetter(now, expiresUnitFuncMap[expUnit], exp)

\* The string setCookie(option) assigns to document.cookie.
SetCookieStringOpt(e, option, loc, now) ==
  EncodeURIComponent(EncryKeyOpt(e)) \o <<"=">>
  \o EncodeURIComponent(ToStringJS(JSONStringify(option.value))) \o <<";">>
  \o <<"p", "a", "t", "h", "=">>
  \o (IF Has(option, "path") /\ option.path # <<>> THEN option.path ELSE <<"/">>) \o <<";">>
  \o <<"d", "o", "m", "a", "i", "n", "=">>
  \o (IF Has(option, "domain") /\ option.domain # <<>> THEN option.domain
      ELSE LocationHost(loc)) \o <<";">>
  \o (IF Has(option, "expires") /\ option.expires # 0
      THEN <<"e", "x", "p", "i", "r", "e", "s", "=">>
           \o ToUTCString(GetExpires(option.expires,
                                     IF Has(option, "expiresUnit") THEN option.expiresUnit
                                     ELSE "milliseconds", now)) \o <<";">>
      ELSE <<>>)

\* The characters of a type name.
TypeChars ==
  [localStorage |-> <<"l", "o", "c", "a", "l", "S", "t", "o", "r", "a", "g", "e">>,
   sessionStorage |-> <<"s", "e", "s", "s", "i", "o", "n", "S", "t", "o", "r", "a", "g", "e">>,
   cookie |-> <<"c", "o", "o", "k", "i", "e">>]

\* What setItem(options) returns, _options being the merged options.
SetItemOptReturn(merged) ==
  IF merged.type = "cookie" THEN merged.value ELSE Str(TypeChars[merged.type])

(***************************************************************************)
(* The state                                                               *)
(***************************************************************************)

VARIABLES
  entries,         \* the instances constructed so far
  cookies,         \* the host's cookie jar
  localStorage,    \* window.localStorage: key -> string
  sessionStorage,  \* window.sessionStorage: key -> string
  window,          \* the storage kinds the host provides
  now,             \* the host's clock, epoch milliseconds
  last,            \* the last call: [op, e, arg, ret, fault, wrote]
  written,         \* the <<kind, key>> written so far by anyone
  track            \* per entry: its own last write, [phase, v, t]

vars == <<entries, cookies, localStorage, sessionStorage, window, now, last, written, track>>

host == <<cookies, localStorage, sessionStorage>>

\* The document's location: https://a.io/p/q
Location == [hostname |-> <<"a", ".", "i", "o">>, pathname |-> <<"/", "p", "/", "q">>]

StorageKinds == {"localStorage", "sessionStorage"}

\* The clock starts here and is advanced MaxTicks times at most.
StartTime == 1999

MaxTicks == 1

\* The numbers among the values are 0..MaxNum.
MaxNum == 1

EmptyStore == [k \in {} |-> <<>>]

NoCall == [op |-> "none", e |-> 0, arg |-> Undefined, ret |-> Undefined, fault |-> "",
           wrote |-> <<>>]

Call(op, e, arg, ret, fault, wrote) ==
  [op |-> op, e |-> e, arg |-> arg, ret |-> ret, fault |-> fault, wrote |-> wrote]

Init ==
  /\ entries = <<>>
  /\ cookies = <<>>
  /\ localStorage = EmptyStore
  /\ sessionStorage = EmptyStore
  /\ window = StorageKinds
  /\ now = StartTime
  /\ last = NoCall
  /\ written = {}
  /\ track = <<>>

\* window[type]
Store(type) == IF type = "localStorage" THEN localStorage ELSE sessionStorage

\* The medium an entry's type names, and the name its records carry there.
KindOf(e) == e.options.type

NameOf(e) == IF e.variant = "value" THEN e.key ELSE EncodeURIComponent(EncryKeyOpt(e))

\* phase is "new" (no setItem of its own yet), "set" (its last write was
\* setItem(v) at time t), "removed" (removeItem() after setItem(v) at time
\* t) or "mixed" (it has called setItem, and someone else has written to
\* the host since).
Fresh == [phase |-> "new", v |-> Undefined, t |-> 0]

Mixed(tr) == [tr EXCEPT !.phase = "mixed"]

\* The tracks after a write by entry i alone (0: by other code).
Disturb(i) ==
  [j \in 1..Len(track) |-> IF j = i \/ track[j].phase = "new" THEN track[j] ELSE Mixed(track[j])]

\* Entry i's track after its removeItem().
Removed(tr) ==
  IF tr.phase = "set" THEN [phase |-> "removed", v |-> tr.v, t |-> tr.t]
  ELSE IF tr.phase \in {"removed", "new"} THEN tr
  ELSE Mixed(tr)

(***************************************************************************)
(* The operations                                                          *)
(***************************************************************************)

\* A construction that reserved the key by storing an empty item under it.
ConstructReserving(arguments, max) ==
  \E a \in arguments :
    /\ Len(entries) < max
    /\ entries' = Append(entries, Constructor(a.key, a.options, Location))
    /\ track' = Append(track, Fresh)
    /\ last' = Call("construct", Len(entries) + 1, Undefined, Undefined, "", <<>>)
    /\ localStorage' = StorageSet(localStorage, a.key, <<>>)
    /\ UNCHANGED <<cookies, sessionStorage, window, now, written>>

\* new FrontEndCache(key, options), for one of the given pairs of arguments;
\* no more than max instances are made.
Construct(arguments, max) ==
  \E a \in arguments :
    /\ Len(entries) < max
    /\ entries' = Append(entries, Constructor(a.key, a.options, Location))
    /\ track' = Append(track, Fresh)
    /\ last' = Call("construct", Len(entries) + 1, Undefined, Undefined, "", <<>>)
    /\ UNCHANGED <<host, window, now, written>>

\* new FrontEndCache(key, options), the options variant.
ConstructOpt(arguments, max) ==
  \E a \in arguments :
    /\ Len(entries) < max
    /\ entries' = Append(entries, ConstructorOpt(a.key, a.options, Location))
    /\ track' = Append(track, Fresh)
    /\ last' = Call("construct", Len(entries) + 1, Undefined, Undefined, "", <<>>)
    /\ UNCHANGED <<host, window, now, written>>

\* An envelope that never carried the time stamp.
EnvelopeBare(e, value, ts) == Arr(<<value, Str(e.options.domain), Str(e.options.path)>>)

\* The array setItem stores: [value, domain, path] and, when the time stamp
\* ts is truthy, ts as fourth element.
EnvelopeWith(e, value, ts) ==
  Arr(<<value, Str(e.options.domain), Str(e.options.path)>>
      \o (IF Truthy(ts) THEN <<ts>> ELSE <<>>))

\* The envelope setItem builds at time t.
Envelope(e, value, t) == EnvelopeWith(e, value, ExpiresTimeStamp(e, t))

\* The track of entry i after its setItem(value); the others are disturbed.
TrackSet(i, value) ==
  [Disturb(i) EXCEPT ![i] = [phase |-> "set", v |-> value, t |-> now]]

\* setItem(value) of the cookie entry i: document.cookie = str.
SetItemCookie(i, value, str) ==
  /\ cookies' = SetDocumentCookie(cookies, str, Location, now)
  /\ last' = Call("setItem", i, value, value, "", str)
  /\ written' = written \cup {<<"cookie", entries[i].key>>}
  /\ track' = TrackSet(i, value)
  /\ UNCHANGED <<localStorage, sessionStorage>>

\* setItem(value) of the storage entry i: window[type].setItem(key, item).
SetItemStorage(i, type, value, item) ==
  /\ localStorage' = IF type = "localStorage"
                     THEN StorageSet(localStorage, entries[i].key, item) ELSE localStorage
  /\ sessionStorage' = IF type = "sessionStorage"
                       THEN StorageSet(sessionStorage, entries[i].key, item) ELSE sessionStorage
  /\ last' = Call("setItem", i, value, value, "", <<>>)
  /\ written' = written \cup {<<type, entries[i].key>>}
  /\ track' = TrackSet(i, value)
  /\ UNCHANGED cookies

\* setItem(value)
SetItem(values) ==
  \E i \in 1..Len(entries), value \in values :
    /\ entries[i].variant = "value"
    /\ IF entries[i].options.type = "cookie"
       THEN SetItemCookie(i, value, SetCookieString(entries[i], value, now))
       ELSE IF entries[i].options.type \notin window
       THEN /\ last' = Call("setItem", i, value, Undefined, "TypeError", <<>>)
            /\ UNCHANGED <<host, written, track>>
       ELSE SetItemStorage(i, entries[i].options.type, value,
                           ToStringJS(SerializeValue(entries[i],
                                                     Envelope(entries[i], value, now))))
    /\ UNCHANGED <<entries, window, now>>

\* getCookie() ?? defaultValue ?? null, c being what getCookie() gave.
CookieOrDefault(c, defaultValue) ==
  IF c.fault # "" THEN c
  ELSE [fault |-> "", ret |-> Coalesce(Coalesce(c.ret, defaultValue), Null)]

\* value?.[0] ?? defaultValue ?? null
FirstOrDefault(value, defaultValue) ==
  [fault |-> "", ret |-> Coalesce(Coalesce(Index0(value), defaultValue), Null)]

\* A getItem that answered as for an empty storage when the host has none.
GetItemGuarded(e, defaultValue, jar, store, t) ==
  IF e.options.type = "cookie"
  THEN CookieOrDefault(GetCookie(e, jar, Location, t), defaultValue)
  ELSE IF e.options.type \notin window THEN FirstOrDefault(Null, defaultValue)
  ELSE FirstOrDefault(Deserialization(e, StorageGet(store, e.key)), defaultValue)

\* What getItem(defaultValue) gives when the host holds the jar and the
\* store, at time t: [fault, ret].
GetItemFrom(e, defaultValue, jar, store, t) ==
  IF e.options.type = "cookie"
  THEN CookieOrDefault(GetCookie(e, jar, Location, t), defaultValue)
  ELSE IF e.options.type \notin window THEN [fault |-> "TypeError", ret |-> Undefined]
  ELSE FirstOrDefault(Deserialization(e, StorageGet(store, e.key)), defaultValue)

\* What getItem(defaultValue) gives in the current state: [fault, ret].
GetItemResult(e, defaultValue) ==
  GetItemFrom(e, defaultValue, cookies, Store(e.options.type), now)

\* What the call would be if the instance kept the value of its own last
\* setItem and answered from that copy (the class has no such field).
GetItemCached(i, defaultValue, r) ==
  Call("getItem", i, defaultValue,
       IF track[i].phase \in {"set", "mixed"} THEN track[i].v
       ELSE r.ret,
       r.fault, <<>>)

\* The call getItem(defaultValue) of entry i that ended as r.
GetItemCall(i, defaultValue, r) == Call("getItem", i, defaultValue, r.ret, r.fault, <<>>)

\* The store without the key.
Without(store, key) == [k \in (DOMAIN store) \ {key} |-> store[k]]

\* A getItem that dropped what is stored under the entry's key on reading it.
GetItemDropping(defaults) ==
  \E i \in 1..Len(entries), defaultValue \in defaults :
    /\ entries[i].variant = "value"
    /\ last' = GetItemCall(i, defaultValue, GetItemResult(entries[i], defaultValue))
    /\ localStorage' = Without(localStorage, entries[i].key)
    /\ sessionStorage' = Without(sessionStorage, entries[i].key)
    /\ UNCHANGED <<entries, cookies, window, now, written, track>>

\* getItem() and getItem(defaultValue)
GetItem(defaults) ==
  \E i \in 1..Len(entries), defaultValue \in defaults :
    /\ entries[i].variant = "value"
    /\ last' = GetItemCall(i, defaultValue, GetItemResult(entries[i], defaultValue))
    /\ UNCHANGED <<entries, host, window, now, written, track>>

\* removeItem() of entry i: document.cookie = str.
RemoveItemCookie(i, str) ==
  /\ cookies' = SetDocumentCookie(cookies, str, Location, now)
  /\ last' = Call("removeItem", i, Undefined, Undefined, "", str)
  /\ track' = [Disturb(i) EXCEPT ![i] = Removed(track[i])]

\* A removeItem that reset the entry's options to the defaults.
RemoveItemResetting ==
  \E i \in 1..Len(entries) :
    /\ entries[i].variant = "value"
    /\ RemoveItemCookie(i, RemoveCookieString(entries[i]))
    /\ entries' = [entries EXCEPT ![i].options = Defaults(Location)]
    /\ UNCHANGED <<localStorage, sessionStorage, window, now, written>>

\* removeItem()
RemoveItem ==
  \E i \in 1..Len(entries) :
    /\ entries[i].variant = "value"
    /\ RemoveItemCookie(i, RemoveCookieString(entries[i]))
    /\ UNCHANGED <<entries, localStorage, sessionStorage, window, now, written>>

\* setItem(options) of the options-variant entry i, for a cookie:
\* document.cookie = str.
SetItemOptCookie(i, options, merged, str) ==
  /\ cookies' = SetDocumentCookie(cookies, str, Location, now)
  /\ last' = Call("setItem", i, options.value, SetItemOptReturn(merged), "", str)
  /\ written' = written \cup {<<"cookie", NameOf(entries[i])>>}
  /\ track' = TrackSet(i, options.value)

\* setItem(options) with the merged options.
SetItemOptMerged(i, options, merged) ==
  IF merged.type = "cookie"
  THEN SetItemOptCookie(i, options, merged,
                        SetCookieStringOpt(entries[i], merged, Location, now))
  ELSE /\ last' = Call("setItem", i, options.value, SetItemOptReturn(merged), "", <<>>)
       /\ UNCHANGED <<cookies, written, track>>

\* setItem(options), the options variant.
SetItemOpt(callOptions) ==
  \E i \in 1..Len(entries), options \in callOptions :
    /\ entries[i].variant = "options"
    /\ SetItemOptMerged(i, options, Spread(entries[i].options, options))
    /\ UNCHANGED <<entries, localStorage, sessionStorage, window, now>>

\* The clock advances by a millisecond.
Tick ==
  /\ now < StartTime + MaxTicks
  /\ now' = now + 1
  /\ last' = Call("tick", 0, Undefined, Undefined, "", <<>>)
  /\ UNCHANGED <<entries, host, window, written, track>>

\* The host is one that does not provide the storage kind (window[kind]
\* is undefined).
HostWithout(kinds) ==
  \E kind \in kinds :
    /\ kind \in window
    /\ window' = window \ {kind}
    /\ last' = Call("host", 0, Undefined, Undefined, "", <<>>)
    /\ UNCHANGED <<entries, host, now, written, track>>

\* Other code of the page stores a string under the key of an entry, in
\* the storage the entry uses.
ForeignStorage(raws) ==
  \E i \in 1..Len(entries), raw \in raws :
    LET type == entries[i].options.type
        key == entries[i].key
    IN
    /\ entries[i].variant = "value"
    /\ type \in window
    /\ localStorage' = IF type = "localStorage" THEN StorageSet(localStorage, key, raw)
                       ELSE localStorage
    /\ sessionStorage' = IF type = "sessionStorage" THEN StorageSet(sessionStorage, key, raw)
                         ELSE sessionStorage
    /\ written' = written \cup {<<type, key>>}
    /\ track' = Disturb(0)
    /\ last' = Call("foreign", 0, Str(raw), Undefined, "", <<>>)
    /\ UNCHANGED <<entries, cookies, window, now>>

\* The set-cookie-string of a cookie for the whole site.
SiteCookieString(name, raw) ==
  name \o <<"=">> \o raw
  \o <<";", "p", "a", "t", "h", "=", "/", ";", "d", "o", "m", "a", "i", "n", "=">>
  \o Location.hostname

\* document.cookie = str by other code, for the cookie called name.
ForeignCookieSet(name, raw, str) ==
  /\ cookies' = SetDocumentCookie(cookies, str, Location, now)
  /\ written' = written \cup {<<"cookie", name>>}
  /\ track' = Disturb(0)
  /\ last' = Call("foreign", 0, Str(raw), Undefined, "", str)

\* The cookie called name is set by other code.
ForeignCookieNamed(name, raw) == ForeignCookieSet(name, raw, SiteCookieString(name, raw))

\* Other code of the page, or the server, sets a cookie for the whole site
\* whose name is that of a cookie entry, between the marks pre and post.
ForeignCookie(marks, raws) ==
  \E i \in 1..Len(entries), mark \in marks, raw \in raws :
    /\ entries[i].options.type = "cookie"
    /\ \A k \in 1..Len(raw) : raw[k] \notin {";", " "}
    /\ ForeignCookieNamed(mark.pre \o NameOf(entries[i]) \o mark.post, raw)
    /\ UNCHANGED <<entries, localStorage, sessionStorage, window, now>>

(***************************************************************************)
(* Bounded inputs and specifications                                       *)
(***************************************************************************)

Kinds == {"cookie", "localStorage", "sessionStorage"}

Units == DOMAIN expiresUnitFuncMap

\* No property given.
NoOptions == [k \in {} |-> 0]

\* { Spread(a, b) } for a and b of two sets of options.
Both(as, bs) == { Spread(a, b) : a \in as, b \in bs }

TypeOptions == {NoOptions} \cup { [type |-> k] : k \in Kinds }

ExpiresOptions ==
  { [expires |-> n] : n \in {0 - 2, 0, 2} }
  \cup { [expires |-> n, expiresUnit |-> u] : n \in {0 - 2, 2}, u \in Units }

PlainKey == <<"k">>

GroupKey == <<"(", "k", ")">>

\* A key whose parenthesis is never closed.
OpenKey == <<"(">>

StrValues == { <<>>, <<"a", "b", "c">>, <<"a", ";", "b", "=", "c">> }

Values ==
  { Str(x) : x \in StrValues } \cup { Num(n) : n \in 0..MaxNum }
  \cup { Bool(b) : b \in BOOLEAN } \cup { Obj(<<Str(<<"i", "d">>), Num(1)>>), Null, Undefined }

DefaultValues == {Undefined, Str(<<"d">>)}

NoMarks == { [pre |-> <<>>, post |-> <<>>] }

CallOptions ==
  { Spread([value |-> v], o) :
      v \in {Str(<<"a", "b", "c">>), Num(1)},
      o \in {NoOptions, [expires |-> 0], [expires |-> 2, expiresUnit |-> "seconds"]} }

\* The pairs [key, options] of a set of keys and a set of options.
Arguments(keys, optionSets) == { [key |-> k, options |-> o] : k \in keys, o \in optionSets }

\* One instance: every type with and without serialization, under paths
\* that match the location and one that does not; for cookies also the
\* keys with parentheses and a key transform.
MainArguments ==
  Arguments({PlainKey}, Both(Both(TypeOptions, {NoOptions, [serialize |-> FALSE]}),
                             {NoOptions, [path |-> <<"/", "p">>], [path |-> <<"/", "z">>]}))
  \cup Arguments({GroupKey}, Both({[type |-> "cookie"]}, {NoOptions, [serialize |-> FALSE]}))
  \cup Arguments({OpenKey}, {[type |-> "cookie"]})
  \cup Arguments({PlainKey}, {[type |-> "cookie", encryKey |-> "tag1"]})

MainArgumentsOpt == Arguments({PlainKey}, TypeOptions)

MainRaws == { <<>>, <<"{">>, <<"%">> }

\* Well-formed JSON texts that are no envelope: a bare string and a bare
\* number.
BareRaws == { <<"\"", "a", "b", "\"">>, <<"5">> }

Next ==
  \/ Construct(MainArguments, 1)
  \/ ConstructOpt(MainArgumentsOpt, 1)
  \/ SetItem(Values)
  \/ GetItem(DefaultValues)
  \/ RemoveItem
  \/ SetItemOpt(CallOptions)
  \/ Tick
  \/ ForeignStorage(MainRaws \cup BareRaws)
  \/ ForeignCookie(NoMarks, MainRaws)

Spec == Init /\ [][Next]_vars

\* One instance with an expiry: every type, every unit, forward and
\* backward.
ExpiryArguments ==
  Arguments({PlainKey}, Both(TypeOptions, ExpiresOptions \cup {NoOptions}))

ExpiryValues == { Str(<<"a", "b", "c">>), Obj(<<Str(<<"i", "d">>), Num(1)>>) }

NextExpiry ==
  \/ Construct(ExpiryArguments, 1)
  \/ SetItem(ExpiryValues)
  \/ GetItem(DefaultValues)
  \/ RemoveItem
  \/ Tick

SpecExpiry == Init /\ [][NextExpiry]_vars

\* Two instances, as in two tabs of one site: one key, cookie or
\* localStorage, with and without serialization, under two paths that
\* match the location.
\* Two instances over the three media, with a key transform, the secure
\* option, and a host that may lack a storage kind.
FrameArguments ==
  Arguments({PlainKey},
            Both({ [type |-> k] : k \in Kinds },
                 {NoOptions, [encryKey |-> "tag1", serialize |-> FALSE], [secure |-> TRUE]}))

FrameValues == { Str(<<"a", "%", "b">>), Undefined }

NextFrame ==
  \/ Construct(FrameArguments, 2)
  \/ SetItem(FrameValues)
  \/ GetItem({Undefined})
  \/ RemoveItem
  \/ HostWithout({"localStorage"})

SpecFrame == Init /\ [][NextFrame]_vars

\* Cookie entries beside cookies whose names hold a key as a prefix or a
\* suffix.
NameArguments ==
  Arguments({PlainKey, GroupKey}, Both({[type |-> "cookie"]}, {NoOptions, [serialize |-> FALSE]}))

NameMarks ==
  NoMarks \cup { [pre |-> <<"a">>, post |-> <<>>], [pre |-> <<>>, post |-> <<"b">>] }

NameRaws == { <<"5">> }

NameValues == { Str(<<"a", "b", "c">>) }

NextNames ==
  \/ Construct(NameArguments, 1)
  \/ SetItem(NameValues)
  \/ GetItem({Undefined})
  \/ RemoveItem
  \/ ForeignCookie(NameMarks, NameRaws)

SpecNames == Init /\ [][NextNames]_vars

\* Two instances whose keys differ: cookie entries with and without a group
\* in the key, storage entries with and without a key transform.
KeysArguments ==
  Arguments({PlainKey, GroupKey},
            Both({[type |-> "cookie"]}, {NoOptions, [serialize |-> FALSE]}))
  \cup Arguments({PlainKey},
                 Both({[type |-> "localStorage"]},
                      {NoOptions, [encryKey |-> "tag1"], [encryKey |-> "blank"]}))
  \cup Arguments({PlainKey}, {[type |-> "cookie", encryKey |-> "blank"]})

KeysValues == { Str(<<"a", "b", "c">>) }

NextKeys ==
  \/ Construct(KeysArguments, 2)
  \/ SetItem(KeysValues)
  \/ GetItem({Undefined})
  \/ RemoveItem

SpecKeys == Init /\ [][NextKeys]_vars

PairArguments ==
  Arguments({PlainKey}, Both(Both({[type |-> "cookie"], [type |-> "localStorage"]},
                                  {NoOptions, [serialize |-> FALSE]}),
                             {NoOptions, [path |-> <<"/", "p">>]}))

PairValues == { Str(<<"a", "b", "c">>), Str(<<"x", "y">>) }

PairRaws == { <<"{">> }

NextPair ==
  \/ Construct(PairArguments, 2)
  \/ SetItem(PairValues)
  \/ GetItem({Undefined})
  \/ RemoveItem
  \/ ForeignStorage(PairRaws)
  \/ ForeignCookie(NoMarks, PairRaws)

SpecPair == Init /\ [][NextPair]_vars

(***************************************************************************)
(* Properties                                                              *)
(***************************************************************************)

\* The last call was getItem of the value-variant entry i.
GotItem(i) == last.op = "getItem" /\ last.e = i

\* What getItem gives for an absent value: the default, or null without one.
AbsentResult(defaultValue) == IF Nullish(defaultValue) THEN Null ELSE defaultValue

\* The last call, a getItem, ended as for an absent value.
ReturnedAbsent == last.fault = "" /\ last.ret = AbsentResult(last.arg)

\* The document at Location is in the scope the entry's options name.
InScope(e) ==
  /\ DomainMatch(Location.hostname, e.options.domain)
  /\ PathMatch(Location.pathname, e.options.path)

DefaultSerialization(e) == ~Has(e.options, "serialize")

\* Strings, numbers, booleans and records.
IsJsonValue(v) == v.t \in {"string", "number", "boolean", "object"}

IsWebStorage(e) == e.options.type \in StorageKinds

\* The milliseconds in one unit, for the units of a fixed length.
UnitLength ==
  [milliseconds |-> 1, seconds |-> 1000, minutes |-> 60 * 1000, hours |-> 60 * 60 * 1000,
   days |-> MsPerDay]

\* The instant the entry's expires lies after t, in its unit.
Advanced(e, t) == t + (e.options.expires * UnitLength[e.options.expiresUnit])

HasFixedExpiry(e) == Has(e.options, "expires") /\ e.options.expiresUnit \in DOMAIN UnitLength

\* The envelope stored under the entry's key, when the text there is one:
\* [ok, v].
StoredEnvelope(e) ==
  IF IsWebStorage(e) /\ e.key \in DOMAIN Store(e.options.type)
  THEN JSONParse(Store(e.options.type)[e.key])
  ELSE [ok |-> FALSE, v |-> Undefined]

\* C1: for every storage kind, with default serialization and no expires,
\* getItem() immediately after setItem(v) on the same entry returns v, for
\* every string, number, boolean and record v (the document being in the
\* entry's scope).
C1_RoundTrip ==
  \A i \in 1..Len(entries) :
    ( /\ GotItem(i)
      /\ last.arg = Undefined
      /\ DefaultSerialization(entries[i])
      /\ ~Has(entries[i].options, "expires")
      /\ InScope(entries[i])
      /\ track[i].phase = "set"
      /\ track[i].t = now
      /\ IsJsonValue(track[i].v) )
    => (last.fault = "" /\ last.ret = track[i].v)

\* C2: for every storage kind, after setItem(v) then removeItem() on the
\* same entry, getItem() returns null and getItem(d) returns d; and for
\* localStorage and sessionStorage entries removeItem deletes the entry
\* stored under the resolved key.
C2_RemoveThenGet ==
  \A i \in 1..Len(entries) :
    /\ (GotItem(i) /\ track[i].phase = "removed") => ReturnedAbsent
    /\ ( /\ last.op = "removeItem"
         /\ last.e = i
         /\ IsWebStorage(entries[i]) )
       => entries[i].key \notin DOMAIN Store(entries[i].options.type)

\* C3: for every storage kind and every serialize setting, getItem() on an
\* entry whose resolved key was never written returns null, and getItem(d)
\* returns d (stated here for the keys without a parenthesis).
C3_NeverWritten ==
  \A i \in 1..Len(entries) :
    ( /\ GotItem(i)
      /\ <<KindOf(entries[i]), NameOf(entries[i])>> \notin written
      /\ KeyLiteral(entries[i].key) = entries[i].key )
    => ReturnedAbsent

\* C4: for a localStorage or sessionStorage entry, if the envelope stored
\* under the resolved key carries an expiry timestamp earlier than the
\* current time, getItem() returns null and getItem(d) returns d.
C4_ExpiredEnvelope ==
  \A i \in 1..Len(entries) :
    ( /\ GotItem(i)
      /\ StoredEnvelope(entries[i]).ok
      /\ StoredEnvelope(entries[i]).v.t = "array"
      /\ Len(StoredEnvelope(entries[i]).v.items) = 4
      /\ StoredEnvelope(entries[i]).v.items[4].t = "number"
      /\ StoredEnvelope(entries[i]).v.items[4].n < now )
    => ReturnedAbsent

\* C5: for every storage kind, with serialize = false and no expires,
\* getItem() immediately after setItem(s) returns exactly the string s.
C5_RawStringRoundTrip ==
  \A i \in 1..Len(entries) :
    ( /\ GotItem(i)
      /\ last.arg = Undefined
      /\ Has(entries[i].options, "serialize")
      /\ ~entries[i].options.serialize
      /\ ~Has(entries[i].options, "expires")
      /\ InScope(entries[i])
      /\ track[i].phase = "set"
      /\ track[i].t = now
      /\ track[i].v.t = "string" )
    => (last.fault = "" /\ last.ret = track[i].v)

\* C6: when expires is a configured number n, expiresTimeStamp evaluated at
\* the current time t is t advanced by n of the configured unit (t + n for
\* milliseconds, t + 1000n for seconds, and so on), not t itself.
C6_ExpiresTimeStamp ==
  \A i \in 1..Len(entries) :
    (entries[i].variant = "value" /\ HasFixedExpiry(entries[i]))
    => ExpiresTimeStamp(entries[i], now) = Num(Advanced(entries[i], now))

\* C7: for every storage kind, a value written by setItem(v) at time t on an
\* entry with a positive expires n is still returned by getItem() at every
\* instant before t advanced by n units, no setItem or removeItem
\* intervening.
C7_LivesUntilExpiry ==
  \A i \in 1..Len(entries) :
    ( /\ GotItem(i)
      /\ last.arg = Undefined
      /\ HasFixedExpiry(entries[i])
      /\ entries[i].options.expires > 0
      /\ DefaultSerialization(entries[i])
      /\ InScope(entries[i])
      /\ track[i].phase = "set"
      /\ now < Advanced(entries[i], track[i].t) )
    => (last.fault = "" /\ last.ret = track[i].v)

\* C8: setItem returns its argument value unchanged, for every storage kind
\* and in every variant of the class.
C8_SetItemReturnsValue ==
  (last.op = "setItem" /\ last.fault = "") => last.ret = last.arg

\* The cookies of the entry's name that the document sees.
Named(e) == { k \in Visible(cookies, Location, now) : cookies[k].name = e.key }

\* The raw text is what is found under the entry's key: in its storage, or
\* in the cookies of its name that the document sees.
RawUnderKey(e, raw) ==
  IF IsWebStorage(e)
  THEN e.key \in DOMAIN Store(e.options.type) /\ Store(e.options.type)[e.key] = raw
  ELSE Named(e) # {} /\ \A k \in Named(e) : cookies[k].value = raw

\* C9: for every storage kind and every raw string found under the resolved
\* key (malformed JSON, malformed percent-encoding, the empty string),
\* getItem raises no error and returns what it returns for a key never
\* written: null, or the supplied default.
C9_MalformedIsAbsent ==
  \A i \in 1..Len(entries) :
    ( /\ GotItem(i)
      /\ DefaultSerialization(entries[i])
      /\ \E raw \in MainRaws : RawUnderKey(entries[i], raw) )
    => ReturnedAbsent

\* The cookie name of an entry made from the arguments a: the
\* percent-encoding of the transformed key.
TransformedName(a) == EncodeURIComponent(EncryKeyOrKey(a.options, a.key))

\* C10: for a cookie entry constructed with a key transform f, the cookie
\* name that setItem writes and removeItem expires is the percent-encoding
\* of f(key), not of the untransformed key.
C10_CookieNameIsTransformedKey ==
  \A i \in 1..Len(entries) :
    \A a \in MainArguments :
      ( /\ last.op \in {"setItem", "removeItem"}
        /\ last.e = i
        /\ entries[i] = Constructor(a.key, a.options, Location)
        /\ entries[i].options.type = "cookie"
        /\ Has(a.options, "encryKey") )
      => StartsWith(last.wrote, TransformedName(a) \o <<"=">>)

\* The parsed text r is an envelope: an array of a value, the domain, the
\* path and, when there is one, the expiry.
IsEnvelope(r) ==
  /\ r.ok
  /\ r.v.t = "array"
  /\ Len(r.v.items) \in {3, 4}
  /\ r.v.items[2].t = "string"
  /\ r.v.items[3].t = "string"
  /\ (Len(r.v.items) = 4 => r.v.items[4].t = "number")

\* C11: for a localStorage or sessionStorage entry, when the current request
\* path does not start with the path recorded in the stored envelope,
\* getItem() returns null and getItem(d) returns d, without raising an error.
C11_PathScoped ==
  \A i \in 1..Len(entries) :
    ( /\ GotItem(i)
      /\ IsEnvelope(StoredEnvelope(entries[i]))
      /\ ~StartsWith(Location.pathname, StoredEnvelope(entries[i]).v.items[3].s) )
    => ReturnedAbsent

\* C12: for a localStorage or sessionStorage entry (with default
\* serialization), whenever getItem returns a result x other than the
\* default or null, the string stored under the resolved key decodes to a
\* well-formed envelope whose value component is x; for any stored content
\* that is no such envelope getItem returns the default or null.
C12_OnlyEnvelopeValues ==
  \A i \in 1..Len(entries) :
    ( /\ GotItem(i)
      /\ IsWebStorage(entries[i])
      /\ DefaultSerialization(entries[i])
      /\ ~ReturnedAbsent )
    => /\ last.fault = ""
       /\ IsEnvelope(StoredEnvelope(entries[i]))
       /\ StoredEnvelope(entries[i]).v.items[1] = last.ret

\* The text of a cookie value decoded as setItem encoded it: [ok, v].
DecodedCookie(text) ==
  IF DecodeURIComponent(text).ok THEN JSONParse(DecodeURIComponent(text).s)
  ELSE [ok |-> FALSE, v |-> Undefined]

\* The value v is stored under the entry's key, as setItem with default
\* serialization stores it: as the value component of an envelope, or in
\* the cookies of the entry's name that the document sees.
ValidStored(e, v) ==
  IF IsWebStorage(e)
  THEN IsEnvelope(StoredEnvelope(e)) /\ StoredEnvelope(e).v.items[1] = v
  ELSE /\ Named(e) # {}
       /\ \A k \in Named(e) :
            DecodedCookie(cookies[k].value).ok /\ DecodedCookie(cookies[k].value).v = v

\* C13: for every storage kind, when a valid value v is stored under the
\* resolved key, getItem(d) returns v and not d, for every v that is not
\* null, including the falsy values false, 0 and the empty string.
C13_FalsyValuesReturned ==
  \A i \in 1..Len(entries) :
    \A v \in Values \ {Null, Undefined} :
      ( /\ GotItem(i)
        /\ DefaultSerialization(entries[i])
        /\ ValidStored(entries[i], v) )
      => (last.fault = "" /\ last.ret = v)

\* A value holding the cookie delimiters.
DelimiterValue == Str(<<"a", ";", "b", "=", "c">>)

\* The record the host reads from the string setItem(v) wrote has the
\* entry's name, path and domain and the encoded value, and nothing more
\* than these three pieces.
OneRecord(e, v, wrote) ==
  /\ Len(Split(wrote, ";")) = 4
  /\ Split(wrote, ";")[4] = <<>>
  /\ NameValue(Split(wrote, ";")[1]).name = e.key
  /\ NameValue(Split(wrote, ";")[1]).value = SerializeValue(e, v).s
  /\ \A k \in 1..Len(SerializeValue(e, v).s) : SerializeValue(e, v).s[k] \notin {";", "="}
  /\ LastAttr(Split(wrote, ";"), <<"p", "a", "t", "h">>).value = e.options.path
  /\ LastAttr(Split(wrote, ";"), <<"d", "o", "m", "a", "i", "n">>).value = e.options.domain

\* C14: for a cookie entry, setItem(v) followed by getItem() returns v for a
\* value v holding the cookie delimiters ";" and "=", and the record written
\* has exactly one name, one value and the configured path and domain
\* attributes.
C14_DelimitersRoundTrip ==
  \A i \in 1..Len(entries) :
    ( /\ entries[i].variant = "value"
      /\ entries[i].options.type = "cookie"
      /\ track[i].phase = "set"
      /\ track[i].t = now
      /\ track[i].v = DelimiterValue )
    => /\ (last.op = "setItem" /\ last.e = i)
            => OneRecord(entries[i], DelimiterValue, last.wrote)
       /\ (GotItem(i) /\ last.arg = Undefined /\ InScope(entries[i]))
            => (last.fault = "" /\ last.ret = DelimiterValue)

\* Entries i and j have the same resolved key, storage kind and options.
SameKey(i, j) ==
  /\ NameOf(entries[i]) = NameOf(entries[j])
  /\ KindOf(entries[i]) = KindOf(entries[j])
  /\ entries[i].options = entries[j].options

\* C15: when two instances with the same resolved key and storage kind (and
\* the same options, as in two tabs) each call setItem, in any interleaving,
\* a later getItem() from either instance returns the value of the setItem
\* that completed last.
C15_LastWriteWins ==
  \A i, j \in 1..Len(entries) :
    ( /\ i # j
      /\ SameKey(i, j)
      /\ track[i].phase = "set"
      /\ track[j].phase = "mixed"
      /\ (GotItem(i) \/ GotItem(j)) )
    => (last.fault = "" /\ last.ret = track[i].v)


HasExpires(wrote) == LastAttr(Split(wrote, ";"), <<"e", "x", "p", "i", "r", "e", "s">>).has

\* C17: the cookie record written by setItem has an expires attribute if
\* and only if expires is a configured number (0 included), in both variants
\* of setCookie: for the options of the entry in the value variant, and for
\* the entry's options merged with those of the call in the options variant.
C17_ExpiresAttribute ==
  \A i \in 1..Len(entries) :
    ( /\ last.op = "setItem"
      /\ last.e = i
      /\ last.fault = ""
      /\ KindOf(entries[i]) = "cookie" )
    => /\ entries[i].variant = "value"
            => (HasExpires(last.wrote) <=> Has(entries[i].options, "expires"))
       /\ entries[i].variant = "options"
            => \A o \in CallOptions :
                 last.wrote = SetCookieStringOpt(entries[i], Spread(entries[i].options, o),
                                                 Location, now)
                 => (HasExpires(last.wrote) <=> Has(o, "expires"))


\* C18: when expires is not a configured number, expiresTimeStamp is null
\* and the envelope setItem writes to localStorage or sessionStorage has no
\* expiry component; when it is, the envelope has one (the envelope being
\* read back from the JSON text stored).
C18_ExpiryComponent ==
  \A i \in 1..Len(entries) :
    ( /\ last.op = "setItem"
      /\ last.e = i
      /\ last.fault = ""
      /\ IsWebStorage(entries[i]) )
    => /\ IsEnvelope(StoredEnvelope(entries[i]))
       /\ (ExpiresTimeStamp(entries[i], now) = Null) <=> ~Has(entries[i].options, "expires")
       /\ (Len(StoredEnvelope(entries[i]).v.items) = 4) <=> Has(entries[i].options, "expires")

\* setItem of a storage entry without expires has written an envelope of
\* three components.
C18_WroteWithoutExpiry ==
  \E i \in 1..Len(entries) :
    /\ last.op = "setItem"
    /\ last.e = i
    /\ IsWebStorage(entries[i])
    /\ ~Has(entries[i].options, "expires")
    /\ IsEnvelope(StoredEnvelope(entries[i]))
    /\ Len(StoredEnvelope(entries[i]).v.items) = 3


\* C19: the expiry component of the envelope stored in localStorage or
\* sessionStorage by an entry's setItem at time t is, when present, the
\* value expiresTimeStamp had at t, an absolute time and not the configured
\* magnitude expires; the clock, getItem and removeItem leave it as it is.
C19_AbsoluteExpiry ==
  \A i \in 1..Len(entries) :
    ( /\ IsWebStorage(entries[i])
      /\ track[i].phase \in {"set", "removed"} )
    => /\ IsEnvelope(StoredEnvelope(entries[i]))
       /\ Len(StoredEnvelope(entries[i]).v.items) = 4
            => /\ StoredEnvelope(entries[i]).v.items[4]
                    = ExpiresTimeStamp(entries[i], track[i].t)
               /\ StoredEnvelope(entries[i]).v.items[4].n # entries[i].options.expires

\* The envelope written earlier still carries the time of its setItem after
\* the clock has advanced and removeItem() was called.
C19_KeptAfterRemove ==
  \E i \in 1..Len(entries) :
    /\ IsWebStorage(entries[i])
    /\ Has(entries[i].options, "expires")
    /\ last.op = "removeItem"
    /\ track[i].phase = "removed"
    /\ track[i].t < now
    /\ IsEnvelope(StoredEnvelope(entries[i]))
    /\ Len(StoredEnvelope(entries[i]).v.items) = 4
    /\ StoredEnvelope(entries[i]).v.items[4] = ExpiresTimeStamp(entries[i], track[i].t)
    /\ StoredEnvelope(entries[i]).v.items[4] # ExpiresTimeStamp(entries[i], now)


\* The cookie the host reads from the string str.
CookieIn(str) == ParseSetCookie(str, Location, now).cookie

\* C20: for a cookie entry, removeItem writes a record with the name, domain
\* and path of the record setItem writes for the entry, with an empty value
\* and an expires attribute at the epoch start; so after setItem(v) then
\* removeItem() the jar holds no cookie of that name, domain and path.
C20_RemoveExpiresCookie ==
  \A i \in 1..Len(entries) :
    (entries[i].variant = "value" /\ KindOf(entries[i]) = "cookie")
    => /\ (last.op = "removeItem" /\ last.e = i)
            => /\ ParseSetCookie(last.wrote, Location, now).ok
               /\ CookieIn(last.wrote).value = <<>>
               /\ CookieIn(last.wrote).expires = 0
               /\ \A v \in Values :
                    /\ ParseSetCookie(SetCookieString(entries[i], v, now), Location, now).ok
                    /\ SameCookie(CookieIn(last.wrote),
                                  CookieIn(SetCookieString(entries[i], v, now)))
       /\ track[i].phase = "removed"
            => \A k \in 1..Len(cookies) :
                 ~ /\ cookies[k].name = entries[i].key
                   /\ cookies[k].domain = entries[i].options.domain
                   /\ cookies[k].path = entries[i].options.path

\* removeItem() of a cookie entry after its setItem(v).
C20_RemovedAfterSet ==
  \E i \in 1..Len(entries) :
    /\ entries[i].variant = "value"
    /\ KindOf(entries[i]) = "cookie"
    /\ last.op = "removeItem"
    /\ last.e = i
    /\ track[i].phase = "removed"


\* C21: getItem changes nothing: the cookie jar, localStorage and
\* sessionStorage are the same after a getItem as before it, whatever is
\* stored; an expired envelope stays in its storage.
C21_GetItemReadsOnly ==
  [][last'.op = "getItem" => UNCHANGED <<cookies, localStorage, sessionStorage>>]_vars

\* getItem has read an envelope whose expiry is earlier than the current
\* time, and the envelope is still stored.
C21_ExpiredStillStored ==
  \E i \in 1..Len(entries) :
    /\ GotItem(i)
    /\ IsEnvelope(StoredEnvelope(entries[i]))
    /\ Len(StoredEnvelope(entries[i]).v.items) = 4
    /\ StoredEnvelope(entries[i]).v.items[4].n < now


\* The text of the envelope env as the entry's serialization setting gives
\* it, with no percent-encoding.
PlainText(e, env) ==
  IF Has(e.options, "serialize") /\ ~e.options.serialize THEN ToStringJS(env)
  ELSE JsonText(env)

\* The store after is the store before with item under key, and nothing
\* else changed.
OnlyItemSet(before, after, key, item) ==
  /\ DOMAIN after = (DOMAIN before) \cup {key}
  /\ after[key] = item
  /\ \A k \in (DOMAIN before) \ {key} : after[k] = before[k]

\* C22: setItem(v) of a localStorage or sessionStorage entry (the value
\* variant) writes exactly one item, under the resolved key, in the
\* configured storage only; the item is the serialization of an envelope
\* whose first component is v and which records the configured path, with
\* no percent-encoding; no other key of that storage changes.
C22_WritesOneItem ==
  [][\A i \in 1..Len(entries) :
       ( /\ last'.op = "setItem"
         /\ last'.e = i
         /\ last'.fault = ""
         /\ entries[i].variant = "value"
         /\ IsWebStorage(entries[i]) )
       => /\ cookies' = cookies
          /\ Envelope(entries[i], last'.arg, now).items[1] = last'.arg
          /\ Envelope(entries[i], last'.arg, now).items[3] = Str(entries[i].options.path)
          /\ IF entries[i].options.type = "localStorage"
             THEN /\ sessionStorage' = sessionStorage
                  /\ OnlyItemSet(localStorage, localStorage', entries[i].key,
                                 PlainText(entries[i], Envelope(entries[i], last'.arg, now)))
             ELSE /\ localStorage' = localStorage
                  /\ OnlyItemSet(sessionStorage, sessionStorage', entries[i].key,
                                 PlainText(entries[i], Envelope(entries[i], last'.arg, now)))
    ]_vars

\* setItem of a storage entry has written a value holding a percent sign
\* while its storage holds another key.
C22_WroteBesideOtherKey ==
  \E i \in 1..Len(entries) :
    /\ last.op = "setItem"
    /\ last.e = i
    /\ last.fault = ""
    /\ IsWebStorage(entries[i])
    /\ last.arg = Str(<<"a", "%", "b">>)
    /\ \E k \in DOMAIN Store(entries[i].options.type) : k # entries[i].key


\* What getItem(d) gives when the raw text raw is what getCookie extracts.
FromRaw(e, raw, d) == Coalesce(Coalesce(Deserialization(e, Str(raw)), d), Null)

\* C23: getItem of a cookie entry reads the value of a cookie whose name is
\* the resolved key exactly; a cookie whose name only holds the key as a
\* prefix or a suffix is not read, and without a cookie of that name the
\* raw value extracted is empty.
C23_ExactName ==
  \A i \in 1..Len(entries) :
    (GotItem(i) /\ entries[i].options.type = "cookie")
    => /\ last.fault = ""
       /\ IF Named(entries[i]) = {}
          THEN last.ret = FromRaw(entries[i], <<>>, last.arg)
          ELSE \E k \in Named(entries[i]) :
                 last.ret = FromRaw(entries[i], cookies[k].value, last.arg)


\* The string written to document.cookie has a secure attribute.
HasSecure(wrote) ==
  \E k \in 2..Len(Split(wrote, ";")) :
    LowerStr(NameValue(Split(wrote, ";")[k]).name) = <<"s", "e", "c", "u", "r", "e">>

\* Entries i and j are cookie entries of the value variant that differ in
\* the secure option at most.
SecureTwins(i, j) ==
  /\ entries[i].variant = "value"
  /\ entries[j].variant = "value"
  /\ entries[i].options.type = "cookie"
  /\ entries[i].key = entries[j].key
  /\ [entries[i].options EXCEPT !.secure = FALSE] = [entries[j].options EXCEPT !.secure = FALSE]

DefaultOptions ==
  [path |-> <<"/">>, domain |-> Location.hostname, expiresUnit |-> "milliseconds",
   secure |-> FALSE, type |-> "localStorage"]

\* The options are those supplied, over the defaults.
MergedOver(options, supplied) ==
  /\ DOMAIN options = (DOMAIN DefaultOptions) \cup (DOMAIN supplied)
  /\ \A name \in DOMAIN supplied : options[name] = supplied[name]
  /\ \A name \in (DOMAIN DefaultOptions) \ (DOMAIN supplied) :
       options[name] = DefaultOptions[name]

C26_ConstructionWritesNothing ==
  [][last'.op = "construct" => UNCHANGED <<cookies, localStorage, sessionStorage>>]_vars

\* An entry has been constructed while the host held a cookie or a stored
\* item written by the entry made before it.
C26_ConstructedOverContents ==
  /\ last.op = "construct"
  /\ Len(entries) = 2
  /\ track[1].phase = "set"
  /\ (cookies # <<>> \/ DOMAIN localStorage # {} \/ DOMAIN sessionStorage # {})


\* C27: an entry's options and resolved key are fixed at construction: no
\* step changes an entry that exists.
C27_ConfigurationFixed ==
  [][\A i \in 1..Len(entries) : i <= Len(entries') /\ entries'[i] = entries[i]]_vars

\* An entry has gone through setItem, removeItem and getItem.
C27_UsedEntry ==
  \E i \in 1..Len(entries) :
    /\ GotItem(i)
    /\ track[i].phase = "removed"
    /\ entries[i].key = PlainKey


\* C28: when the host does not provide the configured storage kind, setItem
\* and getItem of a localStorage or sessionStorage entry (the value variant)
\* end in a fault the caller sees: they return no value and write to no
\* medium.
C28_MissingStorageFaults ==
  [][\A i \in 1..Len(entries) :
       ( /\ last'.op \in {"setItem", "getItem"}
         /\ last'.e = i
         /\ entries[i].variant = "value"
         /\ IsWebStorage(entries[i])
         /\ entries[i].options.type \notin window )
       => /\ last'.fault = "TypeError"
          /\ last'.ret = Undefined
          /\ UNCHANGED <<cookies, localStorage, sessionStorage>>
    ]_vars

\* After its setItem, getItem of a localStorage entry has faulted on a host
\* that no longer provides localStorage.
C28_FaultedWithoutStorage ==
  \E i \in 1..Len(entries) :
    /\ GotItem(i)
    /\ entries[i].options.type = "localStorage"
    /\ "localStorage" \notin window
    /\ last.fault = "TypeError"
    /\ track[i].phase = "set"


\* C29: every operation of an entry touches the medium of its configured
\* kind only: setItem, getItem and removeItem of a localStorage or
\* sessionStorage entry leave the cookie jar as it is, and those of a cookie
\* entry leave localStorage and sessionStorage as they are.
C29_OwnMediumOnly ==
  [][\A i \in 1..Len(entries) :
       (last'.op \in {"setItem", "getItem", "removeItem"} /\ last'.e = i)
       => /\ IsWebStorage(entries[i]) => cookies' = cookies
          /\ entries[i].options.type = "cookie"
               => UNCHANGED <<localStorage, sessionStorage>>
    ]_vars


\* The values given to the last setItem of each entry of the kind and
\* resolved key of entry i: what the medium can hold under that key when
\* entries alone write to it.
ValuesSet(i) ==
  { track[j].v : j \in { k \in 1..Len(entries) :
                           /\ track[k].phase # "new"
                           /\ KindOf(entries[k]) = KindOf(entries[i])
                           /\ NameOf(entries[k]) = NameOf(entries[i]) } }

\* C30: when only entries write to the media, a getItem that returns
\* something other than its default or null returns a value that was the
\* argument of an earlier setItem on the same storage kind and resolved key.
C30_NoValueFromThinAir ==
  \A i \in 1..Len(entries) :
    (GotItem(i) /\ last.fault = "" /\ ~ReturnedAbsent)
    => last.ret \in ValuesSet(i)


\* C31: entries with different resolved keys in the same storage kind are
\* isolated: setItem or removeItem of an entry never changes what getItem()
\* returns on an entry of that kind with another resolved key.
C31_KeysIsolated ==
  [][\A i, j \in 1..Len(entries) :
       ( /\ last'.op \in {"setItem", "removeItem"}
         /\ last'.e = i
         /\ KindOf(entries[i]) = KindOf(entries[j])
         /\ NameOf(entries[i]) # NameOf(entries[j]) )
       => GetItemFrom(entries[j], Undefined, cookies', Store(KindOf(entries[j]))', now')
            = GetItemFrom(entries[j], Undefined, cookies, Store(KindOf(entries[j])), now)
    ]_vars


\* A record for the entry's key exists in its medium.
RecordExists(e) ==
  IF IsWebStorage(e) THEN e.key \in DOMAIN Store(e.options.type)
  ELSE \E k \in 1..Len(cookies) : cookies[k].name = e.key

\* C32: a stored null is indistinguishable from an absent entry: for every
\* storage kind with default serialization, after setItem(null) or
\* setItem(undefined), getItem(d) returns d and getItem() returns null,
\* although a record for the key exists in the medium.
C32_StoredNullIsAbsent ==
  \A i \in 1..Len(entries) :
    ( /\ entries[i].variant = "value"
      /\ DefaultSerialization(entries[i])
      /\ track[i].phase = "set"
      /\ track[i].v \in {Null, Undefined} )
    => /\ GotItem(i) => ReturnedAbsent
       /\ (last.op \in {"setItem", "getItem"} /\ last.e = i) => RecordExists(entries[i])


\* The step is the call op of entry i of the value variant, made right
\* after the same call with the same argument, which did not fault.
Repeated(i, op) ==
  /\ entries[i].variant = "value"
  /\ last.op = op
  /\ last.e = i
  /\ last.fault = ""
  /\ last'.op = op
  /\ last'.e = i
  /\ last'.arg = last.arg

\* C33: with no expires configured, setItem(v) twice leaves every medium as
\* setItem(v) once does, and removeItem() twice as removeItem() once;
\* removeItem() on a key never written raises no error, and getItem() after
\* it returns null.
C33_Idempotent ==
  [][\A i \in 1..Len(entries) :
       ~Has(entries[i].options, "expires")
       => /\ Repeated(i, "setItem") => UNCHANGED <<cookies, localStorage, sessionStorage>>
          /\ Repeated(i, "removeItem") => UNCHANGED <<cookies, localStorage, sessionStorage>>
          /\ ( /\ last'.op = "removeItem"
               /\ last'.e = i
               /\ <<KindOf(entries[i]), NameOf(entries[i])>> \notin written )
             => last'.fault = ""
          /\ ( /\ last.op = "removeItem"
               /\ last.e = i
               /\ <<KindOf(entries[i]), NameOf(entries[i])>> \notin written
               /\ last'.op = "getItem"
               /\ last'.e = i
               /\ last'.arg = Undefined )
             => (last'.fault = "" /\ last'.ret = Null)
    ]_vars


\* The resolved key the arguments a are to give: the key itself when there
\* is no transform or the transform returns the empty string, the
\* transform's result otherwise.
ExpectedKey(a) ==
  IF ~Has(a.options, "encryKey") THEN a.key
  ELSE IF a.options.encryKey = "blank" THEN a.key
  ELSE IF a.options.encryKey = "tag1" THEN <<"1">> \o a.key
  ELSE <<"2">> \o a.key

\* C34: when the key transform returns the empty string, the resolved key
\* of the entry is the untransformed key (percent-encoded for a cookie
\* entry, as every cookie key is); for a non-cookie entry it is otherwise
\* exactly the transform's result, fixed at construction and used by the
\* operations that follow: setItem stores under it, getItem reads what is
\* stored under it and removeItem names it (the value variant).
C34_ResolvedKey ==
  \A i \in 1..Len(entries) :
    \A a \in KeysArguments :
      /\ ( /\ entries[i] = Constructor(a.key, a.options, Location)
           /\ entries[i].options.type = "cookie"
           /\ Has(a.options, "encryKey")
           /\ a.options.encryKey = "blank" )
         => entries[i].key = EncodeURIComponent(a.key)
      /\ ( /\ entries[i] = Constructor(a.key, a.options, Location)
           /\ IsWebStorage(entries[i]) )
         =>
         /\ entries[i].key = ExpectedKey(a)
         /\ (last.op = "setItem" /\ last.e = i)
              => /\ ExpectedKey(a) \in DOMAIN Store(entries[i].options.type)
                 /\ JSONParse(Store(entries[i].options.type)[ExpectedKey(a)]).ok
                 /\ JSONParse(Store(entries[i].options.type)[ExpectedKey(a)]).v.items[1]
                      = last.arg
         /\ (GotItem(i) /\ ExpectedKey(a) \in DOMAIN Store(entries[i].options.type))
              => last.ret
                   = JSONParse(Store(entries[i].options.type)[ExpectedKey(a)]).v.items[1]
         /\ (last.op = "removeItem" /\ last.e = i)
              => StartsWith(last.wrote, ExpectedKey(a) \o <<"=">>)

\* An entry whose transform returns the empty string has read back what it
\* stored under the untransformed key.
C34_BlankTransformUsed ==
  \E i \in 1..Len(entries) :
    /\ Has(entries[i].options, "encryKey")
    /\ entries[i].options.encryKey = "blank"
    /\ IsWebStorage(entries[i])
    /\ GotItem(i)
    /\ track[i].phase = "set"
    /\ last.ret = track[i].v
    /\ PlainKey \in DOMAIN localStorage

=============================================================================
